---- MODULE Spec2Model ----
(***************************************************************************)
(* tfconfig-rs: load_module reads a directory as a Terraform module.       *)
(*                                                                         *)
(* The model follows src/src/lib.rs.  A load is a sequential program; its  *)
(* position is pc:                                                         *)
(*   "start"      before get_files_in_dir                     (line 66)    *)
(*   "files"      head of the loop over the discovered files  (line 68)    *)
(*   "blocks"     head of the loop over a file's blocks       (line 80)    *)
(*   "tf_attrs"   the attribute pass of a terraform block     (line 94)    *)
(*   "tf_blocks"  the loop over a terraform block's blocks    (line 102)   *)
(*   "providers"  the loop over required_providers attributes (line 117)   *)
(*   "done"       load_module has returned                                 *)
(*                                                                         *)
(* The directory listing is part of the initial state.  What a file holds  *)
(* is the environment's choice at the moment the code reads it: the        *)
(* outcome of read_to_string and hcl::parse when the file is opened, and   *)
(* the next element of body.blocks() / body.attributes() every time an     *)
(* iterator is advanced.  hcl::Body is used by the code only through these *)
(* two ordered views.  The ghost variables opened and hist record what was *)
(* read, in the order the code visited it.                                 *)
(*                                                                         *)
(* Strings are sequences of tokens; the token Q is the quote character, so *)
(* that Expression::to_string and replace('"', "") are computed, not       *)
(* assumed.  The literals used here hold no quote or escape of their own.  *)
(***************************************************************************)
EXTENDS Naturals, Sequences, FiniteSets, TLC

VARIABLES
    dir,      \* the directory: [status, entries], entries a sequence of [name, kind]
    strict,   \* the strictness flag the callers in tests/tests.rs pass
    files,    \* the Vec<PathBuf> returned by get_files_in_dir
    fi,       \* index of the file the loop of load_module is at
    pc,       \* position of the load (see above)
    module,   \* the Module under construction
    result,   \* what load_module returned, kind "None" while it runs
    budget,   \* how many declarations the files of the directory hold at most
    opened,   \* ghost: the files opened, each with the outcome of read and parse
    hist      \* ghost: the declarations visited so far, in visiting order

vars == <<dir, strict, files, fi, pc, module, result, budget, opened, hist>>

(***************************************************************************)
(* Bounds of the model.                                                    *)
(***************************************************************************)
\* Entries in the directory listing of a load.
MaxEntries == 2
\* Declarations (required_version and provider attributes) read in one load.
MaxDecls == 3
\* Declarations read in one load of a directory of several primary and
\* override files.
MaxOrderDecls == 2
\* Entries in the directory listing when the names are the varied part.
MaxListing == 2

(***************************************************************************)
(* Strings.                                                                *)
(***************************************************************************)
Q == "\""

\* str.replace('"', "")
StripQuotes(text) == SelectSeq(text, LAMBDA t : t # Q)

\* String::is_empty
is_empty(text) == text = <<>>

RECURSIVE Last_index(_, _, _)
\* Index of the last occurrence of token t in s at or before i, 0 if none.
Last_index(s, t, i) ==
    IF i = 0 THEN 0
    ELSE IF s[i] = t THEN i
    ELSE Last_index(s, t, i - 1)

\* OsStr::to_str: None when the bytes are not UTF-8 (the token "BAD").
to_str_ok(s) == \A i \in 1..Len(s) : s[i] # "BAD"

starts_with(s, t) == Len(s) >= 1 /\ s[1] = t

ends_with(s, t) == Len(s) >= 1 /\ s[Len(s)] = t

ends_with_seq(s, suffix) ==
    /\ Len(s) >= Len(suffix)
    /\ SubSeq(s, Len(s) - Len(suffix) + 1, Len(s)) = suffix

(***************************************************************************)
(* Paths.  A file name is a sequence of tokens, "." the dot.               *)
(* Path::extension and Path::file_stem split at the last dot, unless the   *)
(* name has no dot or its only dot is the leading one.                     *)
(***************************************************************************)
has_extension(name) == Last_index(name, ".", Len(name)) > 1

extension(name) == SubSeq(name, Last_index(name, ".", Len(name)) + 1, Len(name))

file_stem(name) ==
    IF has_extension(name)
    THEN SubSeq(name, 1, Last_index(name, ".", Len(name)) - 1)
    ELSE name

\* ext_is_skipped without the test for a trailing '#'.
ext_is_skipped_no_hash(ext) ==
    \/ starts_with(ext, ".")
    \/ starts_with(ext, "#")
    \/ ends_with(ext, "~")

\* The test on the extension that makes get_files_in_dir skip an entry.
ext_is_skipped(ext) ==
    \/ starts_with(ext, ".")
    \/ starts_with(ext, "#")
    \/ ends_with(ext, "~")
    \/ ends_with(ext, "#")

is_override(basename) ==
    \/ basename = <<"override">>
    \/ ends_with_seq(basename, <<"_", "override">>)

\* Result<Module, Box<dyn Error>> of load_module.  The fields after err are
\* those of the error; file_name is the field tests/tests.rs reads from
\* UnexpectedExpr, which no error of lib.rs carries.
NoResult == [kind |-> "None", err |-> "", name |-> "",
             provider_source |-> <<>>, duplicate_source |-> <<>>,
             file_name |-> <<>>]

OkResult == [NoResult EXCEPT !.kind = "Ok"]

ErrResult(e) == [NoResult EXCEPT !.kind = "Err", !.err = e]

PanicResult == [NoResult EXCEPT !.kind = "Panic"]

RECURSIVE files_loop(_, _, _, _)
\* The loop of get_files_in_dir over the entries from index i on, primary and
\* overrides being the two vectors built so far.
files_loop(entries, i, primary, overrides) ==
    IF i > Len(entries) THEN [result |-> OkResult, files |-> primary \o overrides]
    ELSE LET e == entries[i] IN
         IF e.kind = "err" THEN [result |-> ErrResult("Io"), files |-> <<>>]
         ELSE IF e.kind = "dir" THEN files_loop(entries, i + 1, primary, overrides)
         ELSE IF ~has_extension(e.name) THEN files_loop(entries, i + 1, primary, overrides)
         ELSE IF ~to_str_ok(extension(e.name)) THEN files_loop(entries, i + 1, primary, overrides)
         ELSE IF ext_is_skipped(extension(e.name)) THEN files_loop(entries, i + 1, primary, overrides)
         ELSE IF ~to_str_ok(file_stem(e.name)) THEN [result |-> PanicResult, files |-> <<>>]
         ELSE IF is_override(file_stem(e.name))
              THEN files_loop(entries, i + 1, primary, Append(overrides, e.name))
              ELSE files_loop(entries, i + 1, Append(primary, e.name), overrides)

\* get_files_in_dir returning the files kept in the order of the listing.
get_files_in_dir_unordered(d) ==
    IF d.status = "ioerr" THEN [result |-> ErrResult("Io"), files |-> <<>>]
    ELSE LET r == files_loop(d.entries, 1, <<>>, <<>>)
             names == [i \in DOMAIN d.entries |-> d.entries[i].name] IN
         [r EXCEPT !.files =
             SelectSeq(names, LAMBDA n : \E i \in DOMAIN r.files : r.files[i] = n)]

get_files_in_dir(d) ==
    IF d.status = "ioerr" THEN [result |-> ErrResult("Io"), files |-> <<>>]
    ELSE files_loop(d.entries, 1, <<>>, <<>>)

(***************************************************************************)
(* Expressions.  An hcl::Expression is a string literal or an object; an   *)
(* object's source and version fields, when present, are string literals.  *)
(***************************************************************************)
StringExpr(text) ==
    [kind |-> "String", value |-> text,
     hasSource |-> FALSE, source |-> <<>>, hasVersion |-> FALSE, version |-> <<>>]

ObjectExpr(hs, s, hv, v) ==
    [kind |-> "Object", value |-> <<>>,
     hasSource |-> hs, source |-> s, hasVersion |-> hv, version |-> v]

\* Expression::to_string of a string literal: the text between quotes.
to_string(text) == <<Q>> \o text \o <<Q>>

V1 == <<"1.0.0">>
V2 == <<"~> 1.0">>
SrcA == <<"mycorp/mycloud1">>
SrcB == <<"mycorp/mycloud2">>

\* The required_version expressions a file may hold.
VersionExprs == {StringExpr(V1), StringExpr(V2)}

\* The required_providers attributes a file may hold.
ProviderAttrs ==
    {[key |-> "mycloud", expr |-> e] :
        e \in {StringExpr(<<"test">>),
               ObjectExpr(FALSE, <<>>, TRUE, V1),
               ObjectExpr(TRUE, SrcA, TRUE, V1),
               ObjectExpr(TRUE, SrcA, TRUE, V2),
               ObjectExpr(TRUE, SrcB, TRUE, V2)}}
    \cup {[key |-> "aws", expr |-> ObjectExpr(TRUE, SrcB, FALSE, <<>>)]}

(***************************************************************************)
(* Module and the extraction of one declaration.                           *)
(***************************************************************************)
\* Module::new
NewModule == [required_core |-> <<>>, required_providers |-> <<>>]

\* ProviderRequirement::default, then the two fields read from the object.
provider_req(expr) ==
    [source |-> IF expr.hasSource THEN StripQuotes(to_string(expr.source)) ELSE <<>>,
     version_constraints |->
        IF expr.hasVersion THEN <<StripQuotes(to_string(expr.version))>> ELSE <<>>,
     configuration_aliases |-> <<>>]

\* push_required_core keeping one entry per value.
push_required_core_dedup(core, expr) ==
    LET v == StripQuotes(to_string(expr.value)) IN
    IF \E i \in DOMAIN core : core[i] = v THEN core ELSE Append(core, v)

\* handle_terraform_block, one required_version attribute.
push_required_core(core, expr) ==
    Append(core, StripQuotes(to_string(expr.value)))

\* The test that makes handle_required_providers_block return the error.
sources_conflict(existing, req) ==
    /\ ~is_empty(req.source)
    /\ ~is_empty(existing.source)
    /\ existing.source # req.source

\* merge_existing taking the source of the new declaration as well.
merge_existing_overwrite(existing, req) ==
    [existing EXCEPT
        !.source = req.source,
        !.version_constraints = @ \o req.version_constraints]

\* The Some(existing_provider) arm when there is no conflict.
merge_existing(existing, req) ==
    [existing EXCEPT
        !.version_constraints = @ \o req.version_constraints]

MultipleSourcesForProvider(n, stored, dup) ==
    [kind |-> "Err", err |-> "MultipleSourcesForProvider", name |-> n,
     provider_source |-> stored, duplicate_source |-> dup, file_name |-> <<>>]

\* What handle_required_providers_block does when a provider attribute is not
\* an object.
non_object_attr(providers, name, expr) ==
    [providers |-> providers, result |-> NoResult]

\* handle_required_providers_block, one attribute of the block: the provider
\* map after it and the error it returns (kind "None": the loop goes on).
handle_provider(providers, name, expr) ==
    IF expr.kind # "Object" THEN non_object_attr(providers, name, expr)
    ELSE LET req == provider_req(expr) IN
         IF name \in DOMAIN providers
         THEN IF sources_conflict(providers[name], req)
              THEN [providers |-> providers,
                    result |-> MultipleSourcesForProvider(
                                   name, providers[name].source, req.source)]
              ELSE [providers |->
                        [providers EXCEPT ![name] = merge_existing(@, req)],
                    result |-> NoResult]
         ELSE [providers |-> (name :> req) @@ providers, result |-> NoResult]

\* The ? of load_module on read_to_string and on hcl::parse: where the load
\* goes on an error of reading or parsing the file at fi.
read_failed(e) == [pc |-> "done", result |-> e, fi |-> fi]

\* extract_failed skipping the file when the load is not strict.
extract_failed_lenient(e) ==
    IF strict THEN [pc |-> "done", result |-> e, fi |-> fi]
    ELSE [pc |-> "files", result |-> NoResult, fi |-> fi + 1]

\* The ? of load_module on load_module_from_file.
extract_failed(e) == [pc |-> "done", result |-> e, fi |-> fi]

(***************************************************************************)
(* The load.                                                               *)
(***************************************************************************)
\* let files = get_files_in_dir(path)?
Discover ==
    /\ pc = "start"
    /\ LET r == get_files_in_dir(dir) IN
        /\ files' = r.files
        /\ IF r.result.kind = "Ok"
           THEN pc' = "files" /\ result' = result
           ELSE pc' = "done" /\ result' = r.result
    /\ UNCHANGED <<dir, strict, fi, module, budget, opened, hist>>

\* fs::read_to_string(&file_name)? and hcl::parse(&file_contents)?
OpenFile ==
    /\ pc = "files"
    /\ fi <= Len(files)
    /\ \E outcome \in {"ok", "unreadable", "unparsable"} :
        /\ opened' = Append(opened, [name |-> files[fi], outcome |-> outcome])
        /\ LET next == IF outcome = "ok"
                       THEN [pc |-> "blocks", result |-> result, fi |-> fi]
                       ELSE IF outcome = "unreadable"
                       THEN read_failed(ErrResult("Io"))
                       ELSE read_failed(ErrResult("Parse")) IN
            /\ pc' = next.pc
            /\ result' = next.result
            /\ fi' = next.fi
    /\ UNCHANGED <<dir, strict, files, module, budget, hist>>

\* Ok(module)
Return ==
    /\ pc = "files"
    /\ fi > Len(files)
    /\ pc' = "done"
    /\ result' = OkResult
    /\ UNCHANGED <<dir, strict, files, fi, module, budget, opened, hist>>

\* load_module_from_file: the next block of the file, or the end of the file.
NextBlock ==
    /\ pc = "blocks"
    /\ \/ /\ pc' = "files"             \* no block is left: Ok(()), next file
          /\ fi' = fi + 1
       \/ /\ pc' = "tf_attrs"          \* "terraform"
          /\ fi' = fi
       \/ /\ pc' = pc                  \* any other identifier
          /\ fi' = fi
    /\ UNCHANGED <<dir, strict, files, module, result, budget, opened, hist>>

\* handle_terraform_block: the next attribute of the block.
TfAttr ==
    /\ pc = "tf_attrs"
    /\ \/ /\ pc' = "tf_blocks"         \* no attribute is left
          /\ UNCHANGED <<module, hist>>
       \/ /\ pc' = pc                  \* filtered out: another key
          /\ UNCHANGED <<module, hist>>
       \/ /\ Len(hist) < budget        \* required_version
          /\ \E e \in VersionExprs :
              /\ module' = [module EXCEPT
                               !.required_core = push_required_core(@, e)]
              /\ hist' = Append(hist, [file |-> fi, kind |-> "core",
                                       key |-> "required_version", expr |-> e])
          /\ pc' = pc
    /\ UNCHANGED <<dir, strict, files, fi, result, budget, opened>>

\* handle_terraform_block: the next nested block.
TfBlock ==
    /\ pc = "tf_blocks"
    /\ \/ pc' = "blocks"               \* no block is left: Ok(())
       \/ pc' = "providers"            \* "required_providers"
       \/ pc' = pc                     \* any other identifier
    /\ UNCHANGED <<dir, strict, files, fi, module, result, budget, opened, hist>>

\* handle_required_providers_block: the next attribute of the block.
Provider ==
    /\ pc = "providers"
    /\ \/ /\ pc' = "tf_blocks"         \* no attribute is left: Ok(())
          /\ UNCHANGED <<fi, module, result, hist>>
       \/ /\ Len(hist) < budget
          /\ \E a \in ProviderAttrs :
              LET r == handle_provider(module.required_providers, a.key, a.expr)
                  next == IF r.result.kind = "Err"
                          THEN extract_failed(r.result)
                          ELSE [pc |-> pc, result |-> result, fi |-> fi] IN
              /\ module' = [module EXCEPT !.required_providers = r.providers]
              /\ hist' = Append(hist, [file |-> fi, kind |-> "prov",
                                       key |-> a.key, expr |-> a.expr])
              /\ pc' = next.pc
              /\ result' = next.result
              /\ fi' = next.fi
    /\ UNCHANGED <<dir, strict, files, budget, opened>>

Next ==
    \/ Discover
    \/ OpenFile
    \/ Return
    \/ NextBlock
    \/ TfAttr
    \/ TfBlock
    \/ Provider

(***************************************************************************)
(* Initial states.                                                         *)
(***************************************************************************)
\* Listings of at most n entries of S, no name twice.
Listings(S, n) ==
    UNION {{s \in [1..k -> S] : \A i, j \in 1..k : i # j => s[i].name # s[j].name} :
              k \in 0..n}

FileEntry(n) == [name |-> n, kind |-> "file"]

\* The directories a load is run on: what the files hold is the varied part.
MainEntries ==
    {FileEntry(<<"main", ".", "tf">>),
     FileEntry(<<"override", ".", "tf">>)}

\* Directories of several primary and override files.
OrderEntries ==
    {FileEntry(<<"main", ".", "tf">>),
     FileEntry(<<"vars", ".", "tf">>),
     FileEntry(<<"override", ".", "tf">>),
     FileEntry(<<"vars", "_", "override", ".", "tf">>)}

\* Directory entries of every kind get_files_in_dir tells apart.
DiscoverEntries ==
    {FileEntry(n) : n \in
        {<<"main", ".", "tf">>,                       \* main.tf
         <<"override", ".", "tf">>,                   \* override.tf
         <<"vars", "_", "override", ".", "tf">>,      \* vars_override.tf
         <<"override", "vars", ".", "tf">>,           \* overridevars.tf
         <<"override", ".", "tf", ".", "tf">>,        \* override.tf.tf
         <<"main">>,                                  \* main
         <<".", "tf">>,                               \* .tf
         <<"main", ".">>,                             \* main.
         <<"main", ".", "tf", "~">>,                  \* main.tf~
         <<"main", ".", "~", "tf">>,                  \* main.~tf
         <<"main", ".", "tf", "#">>,                  \* main.tf#
         <<"main", ".", "#", "tf">>,                  \* main.#tf
         <<"main", ".", "BAD">>,                      \* extension not UTF-8
         <<"BAD", ".", "tf">>}}                       \* stem not UTF-8
    \cup {[name |-> <<"vars", ".", "tf">>, kind |-> "dir"],   \* a sub-directory
          [name |-> <<"vars">>, kind |-> "err"]}      \* entry? fails

InitCommon ==
    /\ files = <<>>
    /\ fi = 1
    /\ pc = "start"
    /\ module = NewModule
    /\ result = NoResult
    /\ opened = <<>>
    /\ hist = <<>>

Init ==
    /\ dir \in {[status |-> "ok", entries |-> es] :
                    es \in Listings(MainEntries, MaxEntries)}
    /\ strict \in BOOLEAN
    /\ budget = MaxDecls
    /\ InitCommon

Spec == Init /\ [][Next]_vars

InitOrder ==
    /\ dir \in {[status |-> "ok", entries |-> es] :
                    es \in Listings(OrderEntries, MaxEntries)}
    /\ strict = TRUE
    /\ budget = MaxOrderDecls
    /\ InitCommon

SpecOrder == InitOrder /\ [][Next]_vars

InitDiscover ==
    /\ dir \in {[status |-> "ok", entries |-> es] :
                    es \in Listings(DiscoverEntries, MaxListing)}
               \cup {[status |-> "ioerr", entries |-> <<>>]}
    /\ strict \in BOOLEAN
    /\ budget = 0
    /\ InitCommon

SpecDiscover == InitDiscover /\ [][Next]_vars

(***************************************************************************)
(* What the files declared, read off the ghost variables.                  *)
(***************************************************************************)
\* The source a provider declaration carries: the text between the quotes
\* of its source field, empty when it has none.
DeclaredSource(h) == IF h.expr.hasSource THEN h.expr.source ELSE <<>>

\* The version values a provider declaration carries.
DeclaredVersions(h) == IF h.expr.hasVersion THEN <<h.expr.version>> ELSE <<>>

\* h is an object-shaped declaration of provider k.
Declares(h, k) == h.kind = "prov" /\ h.expr.kind = "Object" /\ h.key = k

ProviderNames == {a.key : a \in ProviderAttrs}

\* The stem of the name is "override" or ends in "_override".
IsOverrideName(n) ==
    LET stem == file_stem(n) IN
    \/ stem = <<"override">>
    \/ /\ Len(stem) >= 2
       /\ stem[Len(stem) - 1] = "_"
       /\ stem[Len(stem)] = "override"

\* s is a prefix of t.
IsPrefix(s, t) == Len(s) <= Len(t) /\ SubSeq(t, 1, Len(s)) = s

\* The required_version values among the declarations hs, in order.
CoreValues(hs) ==
    LET cs == SelectSeq(hs, LAMBDA h : h.kind = "core") IN
    [i \in 1..Len(cs) |-> cs[i].expr.value]

RECURSIVE VersionValues(_, _)
\* The version values of the declarations of provider k among hs, in order.
VersionValues(hs, k) ==
    IF hs = <<>> THEN <<>>
    ELSE (IF Declares(Head(hs), k) THEN DeclaredVersions(Head(hs)) ELSE <<>>)
         \o VersionValues(Tail(hs), k)

\* The declarations taken into the module: all but the one that was refused
\* with an error.
Accepted ==
    IF result.kind = "Err" /\ result.err = "MultipleSourcesForProvider"
    THEN SubSeq(hist, 1, Len(hist) - 1)
    ELSE hist

\* get_files_in_dir has returned a list.
DiscoveryReturned ==
    /\ pc # "start"
    /\ ~(result.kind \in {"Err", "Panic"} /\ opened = <<>>)

\* load_module has returned a Module.
ReturnedModule == pc = "done" /\ result.kind = "Ok"

(***************************************************************************)
(* C1.  Two declarations of one provider name with non-empty sources that  *)
(* differ make load_module_from_file return MultipleSourcesForProvider     *)
(* with the provider's name, the earlier source as provider_source and the *)
(* later one as duplicate_source; load_module returns that error.          *)
(***************************************************************************)
C1_ConflictReported ==
    \A i, j \in DOMAIN hist :
        \A k \in ProviderNames :
            ( /\ i < j
              /\ Declares(hist[i], k)
              /\ Declares(hist[j], k)
              /\ DeclaredSource(hist[i]) # <<>>
              /\ DeclaredSource(hist[j]) # <<>>
              /\ DeclaredSource(hist[i]) # DeclaredSource(hist[j]) )
            => /\ pc = "done"
               /\ result = MultipleSourcesForProvider(
                               k, DeclaredSource(hist[i]), DeclaredSource(hist[j]))

\* The first object-shaped declaration of provider k carries a source.
FirstDeclarationSourced(k) ==
    \E i \in DOMAIN hist :
        /\ Declares(hist[i], k)
        /\ DeclaredSource(hist[i]) # <<>>
        /\ \A l \in 1..(i - 1) : ~Declares(hist[l], k)

\* What the code does ensure: the conflict is reported when the provider's
\* first declaration carries a source.
ConflictReportedWhenFirstSourced ==
    \A i, j \in DOMAIN hist :
        \A k \in ProviderNames :
            ( /\ i < j
              /\ FirstDeclarationSourced(k)
              /\ Declares(hist[i], k)
              /\ Declares(hist[j], k)
              /\ DeclaredSource(hist[i]) # <<>>
              /\ DeclaredSource(hist[j]) # <<>>
              /\ DeclaredSource(hist[i]) # DeclaredSource(hist[j]) )
            => /\ pc = "done"
               /\ result = MultipleSourcesForProvider(
                               k, DeclaredSource(hist[i]), DeclaredSource(hist[j]))

(***************************************************************************)
(* C2.  The list of discovery holds the primary files in enumeration       *)
(* order, then the override files in enumeration order; the files are      *)
(* processed in that order, so required_core and every provider's          *)
(* version_constraints hold what the primary files contributed before      *)
(* anything an override file contributed.                                  *)
(***************************************************************************)
C2_OverridesLast ==
    DiscoveryReturned =>
        LET names == [i \in DOMAIN dir.entries |-> dir.entries[i].name]
            listed == SelectSeq(names, LAMBDA n : \E i \in DOMAIN files : files[i] = n)
            from(ovr) == SelectSeq(Accepted,
                                   LAMBDA h : IsOverrideName(files[h.file]) = ovr)
        IN  /\ files = SelectSeq(listed, LAMBDA n : ~IsOverrideName(n))
                       \o SelectSeq(listed, LAMBDA n : IsOverrideName(n))
            /\ \A i, j \in DOMAIN hist : i < j => hist[i].file <= hist[j].file
            /\ module.required_core = CoreValues(from(FALSE)) \o CoreValues(from(TRUE))
            /\ \A k \in DOMAIN module.required_providers :
                   module.required_providers[k].version_constraints
                       = VersionValues(from(FALSE), k) \o VersionValues(from(TRUE), k)

\* An override file is enumerated before a primary file, and both have
\* contributed a required_version.
C2_Witness ==
    /\ ReturnedModule
    /\ \E a, b \in DOMAIN dir.entries :
        /\ a < b
        /\ IsOverrideName(dir.entries[a].name)
        /\ ~IsOverrideName(dir.entries[b].name)
        /\ \E i, j \in DOMAIN hist :
            /\ hist[i].kind = "core" /\ files[hist[i].file] = dir.entries[a].name
            /\ hist[j].kind = "core" /\ files[hist[j].file] = dir.entries[b].name

(***************************************************************************)
(* C3.  A required_providers attribute whose value is not an object makes  *)
(* load_module_from_file fail with UnexpectedExpr naming the attribute's   *)
(* key and the path of the file.                                           *)
(***************************************************************************)
C3_UnexpectedExpr ==
    \A i \in DOMAIN hist :
        (hist[i].kind = "prov" /\ hist[i].expr.kind # "Object")
        => /\ pc = "done"
           /\ result.kind = "Err"
           /\ result.err = "UnexpectedExpr"
           /\ result.name = hist[i].key
           /\ result.file_name = files[hist[i].file]

RECURSIVE ModuleOf(_, _)
\* The Module a load builds from the declarations hs, starting from m.
ModuleOf(hs, m) ==
    IF hs = <<>> THEN m
    ELSE LET h == Head(hs) IN
         ModuleOf(Tail(hs),
                  IF h.kind = "core"
                  THEN [m EXCEPT !.required_core = push_required_core(@, h.expr)]
                  ELSE [m EXCEPT !.required_providers =
                                   handle_provider(@, h.key, h.expr).providers])

(***************************************************************************)
(* C4.  A file that cannot be read or parsed: with strict = false the file *)
(* is skipped, the load goes on with the next file and returns the Module  *)
(* of the other files; with strict = true the load returns the error, Io   *)
(* for a read failure and Parse for a syntax failure.                      *)
(***************************************************************************)
C4_Strictness ==
    LET bad == {i \in DOMAIN opened : opened[i].outcome # "ok"}
        first == CHOOSE i \in bad : \A j \in bad : i <= j
    IN  (pc = "done" /\ bad # {}) =>
            /\ strict =>
                /\ result.kind = "Err"
                /\ result.err = IF opened[first].outcome = "unreadable"
                                THEN "Io" ELSE "Parse"
            /\ ~strict =>
                /\ ~(result.kind = "Err" /\ result.err \in {"Io", "Parse"})
                /\ result.kind = "Ok" =>
                    /\ Len(opened) = Len(files)
                    /\ module = ModuleOf(hist, NewModule)

(***************************************************************************)
(* C5.  The Module returned holds in required_core one entry per           *)
(* required_version attribute of the files, the text of the attribute      *)
(* without its quotes, duplicates kept, in the order of the files and,     *)
(* within a file, of the declarations.                                     *)
(***************************************************************************)
C5_RequiredCore ==
    ReturnedModule =>
        /\ module.required_core = CoreValues(hist)
        /\ \A i, j \in DOMAIN hist : i < j => hist[i].file <= hist[j].file

\* Two attributes of one file and one of a later file, one value twice.
C5_Witness ==
    /\ ReturnedModule
    /\ Len(hist) = 3
    /\ \A i \in DOMAIN hist : hist[i].kind = "core"
    /\ hist[1].file = hist[2].file
    /\ hist[2].file < hist[3].file
    /\ module.required_core = <<V2, V1, V1>>

(***************************************************************************)
(* C6.  A provider declared in two files with the same non-empty source    *)
(* and different versions has, in the Module returned, one requirement     *)
(* with that source whose version_constraints hold both versions in the    *)
(* order of the files.                                                     *)
(***************************************************************************)
C6_SameSourceMerged ==
    ReturnedModule =>
        \A i, j \in DOMAIN hist :
            \A k \in ProviderNames :
                ( /\ hist[i].file < hist[j].file
                  /\ Declares(hist[i], k)
                  /\ Declares(hist[j], k)
                  /\ DeclaredSource(hist[i]) # <<>>
                  /\ DeclaredSource(hist[i]) = DeclaredSource(hist[j])
                  /\ DeclaredVersions(hist[i]) # <<>>
                  /\ DeclaredVersions(hist[j]) # <<>>
                  /\ DeclaredVersions(hist[i]) # DeclaredVersions(hist[j]) )
                => /\ k \in DOMAIN module.required_providers
                   /\ module.required_providers[k].source = DeclaredSource(hist[i])
                   /\ LET vc == module.required_providers[k].version_constraints IN
                      \E a, b \in DOMAIN vc :
                          /\ a < b
                          /\ <<vc[a]>> = DeclaredVersions(hist[i])
                          /\ <<vc[b]>> = DeclaredVersions(hist[j])

\* What the code does ensure: the source is kept when the provider's first
\* declaration carries it.
SameSourceMergedWhenFirstSourced ==
    ReturnedModule =>
        \A i, j \in DOMAIN hist :
            \A k \in ProviderNames :
                ( /\ hist[i].file < hist[j].file
                  /\ FirstDeclarationSourced(k)
                  /\ Declares(hist[i], k)
                  /\ Declares(hist[j], k)
                  /\ DeclaredSource(hist[i]) # <<>>
                  /\ DeclaredSource(hist[i]) = DeclaredSource(hist[j]) )
                => /\ k \in DOMAIN module.required_providers
                   /\ module.required_providers[k].source = DeclaredSource(hist[i])
                   /\ module.required_providers[k].version_constraints
                          = VersionValues(hist, k)

Eligible(e) ==
    /\ e.kind # "dir"
    /\ has_extension(e.name)
    /\ LET ext == extension(e.name) IN
        /\ \A i \in DOMAIN ext : ext[i] # "BAD"
        /\ ext # <<>> => /\ ext[1] \notin {".", "#"}
                         /\ ext[Len(ext)] \notin {"~", "#"}

C8_Discovered ==
    DiscoveryReturned =>
        /\ \A i \in DOMAIN dir.entries :
               Cardinality({j \in DOMAIN files : files[j] = dir.entries[i].name})
                   = IF Eligible(dir.entries[i]) THEN 1 ELSE 0
        /\ Len(files) = Cardinality({i \in DOMAIN dir.entries : Eligible(dir.entries[i])})
        /\ \A i \in DOMAIN opened :
               \E j \in DOMAIN dir.entries :
                   dir.entries[j].name = opened[i].name /\ Eligible(dir.entries[j])

\* A listing with a file that is kept and opened and an entry with an
\* extension that is left out.
C8_Witness ==
    /\ ReturnedModule
    /\ Len(opened) = 1
    /\ \E i \in DOMAIN dir.entries :
        /\ dir.entries[i].kind = "file"
        /\ has_extension(dir.entries[i].name)
        /\ ~Eligible(dir.entries[i])

(***************************************************************************)
(* C9.  When the entry of a provider has an empty source and a later       *)
(* declaration of the provider carries a source, the entry takes that      *)
(* source; so after declarations without a source, with source A and with  *)
(* source B, in this order, the load has ended with the conflict of A      *)
(* and B.                                                                  *)
(***************************************************************************)
C9_AdoptsSource ==
    \A j \in DOMAIN hist :
        \A k \in ProviderNames :
            ( /\ Declares(hist[j], k)
              /\ DeclaredSource(hist[j]) # <<>>
              /\ \E i \in 1..(j - 1) : Declares(hist[i], k)
              /\ \A i \in 1..(j - 1) :
                     Declares(hist[i], k) => DeclaredSource(hist[i]) = <<>> )
            => /\ k \in DOMAIN module.required_providers
               /\ module.required_providers[k].source = DeclaredSource(hist[j])
               /\ \A l \in DOMAIN hist :
                      ( /\ l > j
                        /\ Declares(hist[l], k)
                        /\ DeclaredSource(hist[l]) \notin {<<>>, DeclaredSource(hist[j])} )
                      => result = MultipleSourcesForProvider(
                                      k, DeclaredSource(hist[j]), DeclaredSource(hist[l]))

(***************************************************************************)
(* C10.  Every step of a load, one that ends in an error included, only    *)
(* grows the Module: required_core and every provider's                    *)
(* version_constraints keep their value as a prefix, no provider is        *)
(* removed, and a source that is not empty does not change.                *)
(***************************************************************************)
C10_ModuleGrows ==
    [][ /\ IsPrefix(module.required_core, module'.required_core)
        /\ \A k \in DOMAIN module.required_providers :
            /\ k \in DOMAIN module'.required_providers
            /\ IsPrefix(module.required_providers[k].version_constraints,
                        module'.required_providers[k].version_constraints)
            /\ module.required_providers[k].source # <<>>
               => module'.required_providers[k].source
                      = module.required_providers[k].source ]_vars

\* A load that grew an entry twice and then ended in an error.
C10_Witness ==
    /\ result.kind = "Err"
    /\ result.err = "MultipleSourcesForProvider"
    /\ "mycloud" \in DOMAIN module.required_providers
    /\ Len(module.required_providers["mycloud"].version_constraints) = 2
    /\ module.required_providers["mycloud"].source # <<>>

====
